---- MODULE Spec2Model ----
(***************************************************************************)
(* Model of main.py: a Streamlit page that queries the Compound-v2         *)
(* subgraph, reshapes the answer into a table, registers one cadCAD        *)
(* configuration, executes the registered configurations and renders the   *)
(* result (title, two sidebar buttons, progress bar, table, live chart).   *)
(*                                                                         *)
(* The script is re-executed top to bottom by Streamlit on every           *)
(* interaction; the cadCAD list `configs` is a module-level list of the    *)
(* imported package and therefore lives as long as the process.            *)
(*                                                                         *)
(* The cadCAD engine is taken with its documented semantics: the values    *)
(* of M are parameter sweeps of length one, the genesis record carries     *)
(* timestep 0 and substep 0, and the record produced from previous state   *)
(* s at the k-th element of T carries timestep k+1.                        *)
(***************************************************************************)
EXTENDS Integers, Sequences, FiniteSets, TLC

\* ---------------------------------------------------------------- bounds
MaxRows == 2
MaxExecutions == 3
MaxMarkets == 100

\* ------------------------------------------------------- Python values
\* A Python number is kept as an exact fraction num/den (den > 0), a Python
\* string as its text; both share one record shape so that they compare.
RECURSIVE GCD(_, _)
GCD(a, b) == IF b = 0 THEN a ELSE GCD(b, a % b)

PyFloat(n, d) ==
    LET g == GCD(n, d)
    IN  [type |-> "float", num |-> n \div g, den |-> d \div g, str |-> ""]

PyNum(n) == [type |-> "float", num |-> n, den |-> 1, str |-> ""]

PyStr(s) == [type |-> "str", num |-> 0, den |-> 1, str |-> s]

\* a / b raises ZeroDivisionError for native Python numbers when b == 0
ZeroDivisionError(a, b) == b.num = 0

PyDiv(a, b) == PyFloat(a.num * b.den, a.den * b.num)

PyMul(a, k) == PyFloat(a.num * k, a.den)

\* ------------------------------------------------------------ the data
\* JSON cells of the subgraph answer are strings; a cell is numeric text
\* (with the number it spells) or text that spells no number.
Cell(n) == [text |-> "numeric", value |-> n]
Garbage == [text |-> "garbage", value |-> 0]

MarketA ==
    [borrowRate |-> Cell(3), supplyRate |-> Cell(2), totalBorrows |-> Cell(1),
     totalSupply |-> Cell(4), exchangeRate |-> Cell(5)]

MarketB ==
    [borrowRate |-> Cell(7), supplyRate |-> Cell(6), totalBorrows |-> Cell(0),
     totalSupply |-> Cell(0), exchangeRate |-> Cell(9)]

MarketBad ==
    [borrowRate |-> Cell(1), supplyRate |-> Cell(1), totalBorrows |-> Garbage,
     totalSupply |-> Cell(1), exchangeRate |-> Cell(1)]

GoodMarkets == {MarketA, MarketB}

RECURSIVE SeqsUpTo(_, _)
SeqsUpTo(S, n) ==
    IF n = 0 THEN {<<>>}
    ELSE LET shorter == SeqsUpTo(S, n - 1)
         IN  shorter \cup {Append(s, x) : s \in {q \in shorter : Len(q) = n - 1}, x \in S}

\* the answers of the endpoint that carry a non-empty, numeric market list
SmallAnswers == SeqsUpTo(GoodMarkets, MaxRows) \ {<<>>}

Uniform(n) == [i \in 1..n |-> MarketA]

Response(kind, ms) == [kind |-> kind, markets |-> ms]

\* what req.post / json.loads can come back with, given the market lists
\* the endpoint may serve
Responses(served) ==
    {Response("ok", ms) : ms \in served}
        \cup {Response("ok", <<>>), Response("ok", <<MarketBad>>),
              Response("network_error", <<>>), Response("malformed", <<>>)}

\* pd.to_numeric on a column of strings
Numeric(col) == \A i \in DOMAIN col : col[i].text = "numeric"

to_numeric(cell) == PyNum(cell.value)

Columns == {"borrowRate", "supplyRate", "totalBorrows", "totalSupply", "exchangeRate"}

\* pd.DataFrame(markets) has the five columns only if there is a market;
\* the assign chain faults on a missing column or a non-numeric cell
ReshapeFaults(ms) ==
    \/ ms = <<>>
    \/ \E c \in Columns : ~Numeric([i \in DOMAIN ms |-> ms[i][c]])

\* raw_df.assign(...).reset_index(): numeric columns plus the index column
Reshape(ms) ==
    [i \in DOMAIN ms |->
        [index |-> i - 1,
         borrowRate |-> to_numeric(ms[i].borrowRate),
         supplyRate |-> to_numeric(ms[i].supplyRate),
         totalBorrows |-> to_numeric(ms[i].totalBorrows),
         totalSupply |-> to_numeric(ms[i].totalSupply),
         exchangeRate |-> to_numeric(ms[i].exchangeRate)]]

\* df.to_dict(orient='index'): row label -> row, labels 0..len-1
to_dict(frame) == [k \in 0..(Len(frame) - 1) |-> frame[k + 1]]

\* ------------------------------------------------------------ the model
initial_state ==
    [lender_APY |-> PyNum(0), borrower_rate |-> PyNum(0),
     utilization_rate |-> PyNum(0), exchange_rate |-> PyNum(0)]

\* system_params after the engine has unwrapped the one-element sweeps
system_params(df_dict) == [new_df |-> df_dict, exchange_rate |-> PyStr("exchangeRate")]

\* t = previous_state['timestep']
RowKeyNext(previous_state) == previous_state.timestep + 1

RowKey(previous_state) == previous_state.timestep

\* try: borrowed / TVL * 100  except ZeroDivisionError: 0
UtilizationFraction(total_borrowed, TVL) ==
    IF ZeroDivisionError(total_borrowed, TVL) THEN PyNum(0)
    ELSE PyDiv(total_borrowed, TVL)

Utilization(total_borrowed, TVL) ==
    IF ZeroDivisionError(total_borrowed, TVL) THEN PyNum(0)
    ELSE PyMul(PyDiv(total_borrowed, TVL), 100)

p_rates(params, previous_state) ==
    LET ts_data == params.new_df[RowKey(previous_state)]
    IN  [lender_APY |-> ts_data.supplyRate,
         borrower_rate |-> ts_data.borrowRate,
         exchange_rate |-> params.exchange_rate,
         utilization_rate |-> Utilization(ts_data.totalBorrows, ts_data.totalSupply)]

s_lender_APY_keep(previous_state, policy_input) == previous_state.lender_APY

s_lender_APY(previous_state, policy_input) == policy_input.lender_APY

s_borrower_APY(previous_state, policy_input) == policy_input.borrower_rate

s_utilization_rate(previous_state, policy_input) == policy_input.utilization_rate

s_exchange_rate(previous_state, policy_input) == policy_input.exchange_rate

\* one partial state update block: the policy, then the four state updates,
\* then the engine stamps the new record with the time step
partial_state_update_blocks(params, previous_state, time_step) ==
    LET policy_input == p_rates(params, previous_state)
    IN  [previous_state EXCEPT
            !.lender_APY = s_lender_APY(previous_state, policy_input),
            !.borrower_rate = s_borrower_APY(previous_state, policy_input),
            !.utilization_rate = s_utilization_rate(previous_state, policy_input),
            !.exchange_rate = s_exchange_rate(previous_state, policy_input),
            !.substep = 1,
            !.timestep = time_step]

\* the configuration dictionary: T = range(len(df_dict)), N = 1
configShort(df_dict) ==
    [T |-> Cardinality(DOMAIN df_dict) - 1, N |-> 1, M |-> system_params(df_dict),
     initial_state |-> initial_state]

configLong(df_dict) ==
    [T |-> Cardinality(DOMAIN df_dict) + 1, N |-> 1, M |-> system_params(df_dict),
     initial_state |-> initial_state]

config(df_dict) ==
    [T |-> Cardinality(DOMAIN df_dict), N |-> 1, M |-> system_params(df_dict),
     initial_state |-> initial_state]

\* the record the engine starts a run from
Genesis(state, simulation, run) ==
    [simulation |-> simulation, subset |-> 0, run |-> run, substep |-> 0, timestep |-> 0,
     lender_APY |-> state.lender_APY, borrower_rate |-> state.borrower_rate,
     utilization_rate |-> state.utilization_rate, exchange_rate |-> state.exchange_rate]

\* the state values two runs of the same table may be started from
InitialStates ==
    [{"lender_APY", "borrower_rate", "utilization_rate", "exchange_rate"}
        -> {PyNum(0), PyNum(8)}]

\* (i + 1) / len(result) * 100
PercentOffByOne(i, n) == PyMul(PyDiv(PyNum(i), PyNum(n)), 100)

Percent(i, n) == PyMul(PyDiv(PyNum(i + 1), PyNum(n)), 100)

\* result.iloc[i, :], i counted from 0
iloc(frame, i) == frame[i + 1]

\* ---------------------------------------------------------------- state
VARIABLES
    served,          \* the market lists the endpoint may answer with
    pc,              \* position of the script
    executions,      \* script executions started in this process
    run_simulation,  \* value of the "Run Simulation" button in this execution
    re_run,          \* value of the "Re-run" button in this execution
    requests,        \* POSTs sent in this execution
    fault,           \* the step whose unhandled exception ended the execution
    graph_data,      \* the market list of the answer
    df,              \* the reshaped table
    configs,         \* cadCAD's process-wide list of configurations
    caller,          \* which simulation.execute() is running
    executes,        \* simulation.execute() calls started in this execution
    simulation,      \* position in configs of the configuration being run
    run,             \* Monte Carlo run of that configuration
    sL,              \* state history of the run
    reads,           \* the row keys p_rates has used in the run
    raw_result,      \* records collected by the executor
    result,          \* the result table
    figShown,        \* fig.show() was called
    i,               \* loop index of the progress and chart loops
    page,            \* elements rendered on the page, in order
    progress,        \* values handed to the progress bar, in order
    chart,           \* rows appended to the live chart, in order
    twinDf,          \* table of the two compared runs
    twinA,           \* state history of the first compared run
    twinB            \* state history of the second compared run

scriptVars == <<pc, executions, run_simulation, re_run, requests, fault, graph_data, df>>
engineVars == <<configs, caller, executes, simulation, run, sL, reads, raw_result, result>>
pageVars == <<figShown, i, page, progress, chart>>
twinVars == <<twinDf, twinA, twinB>>
vars == <<served, scriptVars, engineVars, pageVars, twinVars>>

\* a fresh top-to-bottom execution of the script; configs is not script state
StartExecution(runButton, rerunButton) ==
    /\ pc' = "query"
    /\ run_simulation' = runButton
    /\ re_run' = rerunButton
    /\ requests' = 0
    /\ fault' = "none"
    /\ graph_data' = <<>>
    /\ df' = <<>>
    /\ caller' = "none"
    /\ executes' = 0
    /\ simulation' = 0
    /\ run' = 0
    /\ sL' = <<>>
    /\ reads' = <<>>
    /\ raw_result' = <<>>
    /\ result' = <<>>
    /\ figShown' = FALSE
    /\ i' = 0
    /\ page' = <<>>
    /\ progress' = <<>>
    /\ chart' = <<>>

InitScript ==
    /\ pc = "query"
    /\ executions = 1
    /\ run_simulation = FALSE
    /\ re_run = FALSE
    /\ requests = 0
    /\ fault = "none"
    /\ graph_data = <<>>
    /\ df = <<>>
    /\ configs = <<>>
    /\ caller = "none"
    /\ executes = 0
    /\ simulation = 0
    /\ run = 0
    /\ sL = <<>>
    /\ reads = <<>>
    /\ raw_result = <<>>
    /\ result = <<>>
    /\ figShown = FALSE
    /\ i = 0
    /\ page = <<>>
    /\ progress = <<>>
    /\ chart = <<>>

NoTwin ==
    /\ twinDf = <<>>
    /\ twinA = <<>>
    /\ twinB = <<>>

\* while the process lives the subgraph is in one of two snapshots
Init ==
    /\ served \in {{a, b} : a \in SmallAnswers, b \in SmallAnswers}
    /\ InitScript
    /\ NoTwin

\* the page of a subgraph that lists MaxMarkets markets
InitLarge ==
    /\ served \in {{Uniform(n)} : n \in {1, MaxMarkets}}
    /\ InitScript
    /\ NoTwin

\* r = req.post(...); graph_data = json.loads(r.content)['data']
QuerySwallow ==
    /\ pc = "query"
    /\ \E resp \in Responses(served) :
        /\ requests' = requests + 1
        /\ IF resp.kind = "ok"
           THEN /\ graph_data' = resp.markets
                /\ pc' = "reshape"
                /\ fault' = fault
           ELSE /\ fault' = "query"
                /\ pc' = "widgets"
                /\ graph_data' = graph_data
    /\ UNCHANGED <<served, executions, run_simulation, re_run, df, engineVars, pageVars, twinVars>>

Query ==
    /\ pc = "query"
    /\ \E resp \in Responses(served) :
        /\ requests' = requests + 1
        /\ IF resp.kind = "ok"
           THEN /\ graph_data' = resp.markets
                /\ pc' = "reshape"
                /\ fault' = fault
           ELSE /\ fault' = "query"
                /\ pc' = "crashed"
                /\ graph_data' = graph_data
    /\ UNCHANGED <<served, executions, run_simulation, re_run, df, engineVars, pageVars, twinVars>>

\* raw_df = pd.DataFrame(graph_data['markets']); df = raw_df.assign(...)
DataWrangle ==
    /\ pc = "reshape"
    /\ IF ReshapeFaults(graph_data)
       THEN /\ fault' = "reshape"
            /\ pc' = "crashed"
            /\ df' = df
       ELSE /\ df' = Reshape(graph_data)
            /\ pc' = "configure"
            /\ fault' = fault
    /\ UNCHANGED <<served, executions, run_simulation, re_run, requests, graph_data,
                   engineVars, pageVars, twinVars>>

\* the executor enters the first run of the first registered configuration
EnterExecute(cs, site) ==
    /\ caller' = site
    /\ executes' = executes + 1
    /\ simulation' = 1
    /\ run' = 1
    /\ sL' = <<Genesis(cs[1].initial_state, 0, 1)>>
    /\ reads' = <<>>
    /\ raw_result' = <<>>

\* df_dict .. exp.append_configs(config) .. simulation.execute() is entered
Configure ==
    /\ pc = "configure"
    /\ configs' = Append(configs, config(to_dict(df)))
    /\ EnterExecute(configs', "load")
    /\ pc' = "execute"
    /\ UNCHANGED <<served, executions, run_simulation, re_run, requests, fault, graph_data, df,
                   result, pageVars, twinVars>>

\* one element of T: the policy and the state updates of the single block
PolicyStep ==
    /\ pc = "execute"
    /\ Len(sL) - 1 < configs[simulation].T
    /\ LET cfg == configs[simulation]
           previous_state == sL[Len(sL)]
       IN  /\ reads' = Append(reads, RowKey(previous_state))
           /\ IF RowKey(previous_state) \in DOMAIN cfg.M.new_df
              THEN /\ sL' = Append(sL, partial_state_update_blocks(cfg.M, previous_state, Len(sL)))
                   /\ pc' = pc
                   /\ fault' = fault
              ELSE /\ sL' = sL
                   /\ pc' = "crashed"
                   /\ fault' = "KeyError"
    /\ UNCHANGED <<served, executions, run_simulation, re_run, requests, graph_data, df,
                   configs, caller, executes, simulation, run, raw_result, result,
                   pageVars, twinVars>>

\* T is exhausted: the records of the run are collected and the executor goes
\* on to the next run, the next configuration, or returns the result
RunDone ==
    /\ pc = "execute"
    /\ Len(sL) - 1 >= configs[simulation].T
    /\ raw_result' = raw_result \o sL
    /\ IF run < configs[simulation].N
       THEN /\ run' = run + 1
            /\ sL' = <<Genesis(configs[simulation].initial_state, simulation - 1, run + 1)>>
            /\ reads' = <<>>
            /\ UNCHANGED <<simulation, result, pc>>
       ELSE IF simulation < Len(configs)
       THEN /\ simulation' = simulation + 1
            /\ run' = 1
            /\ sL' = <<Genesis(configs[simulation + 1].initial_state, simulation, 1)>>
            /\ reads' = <<>>
            /\ UNCHANGED <<result, pc>>
       ELSE /\ result' = raw_result'
            /\ pc' = IF caller = "load" THEN "plot" ELSE "progress"
            /\ UNCHANGED <<simulation, run, sL, reads>>
    /\ UNCHANGED <<served, executions, run_simulation, re_run, requests, fault, graph_data, df,
                   configs, caller, executes, pageVars, twinVars>>

\* fig = px.line(result, ...); fig.show()
Plot ==
    /\ pc = "plot"
    /\ figShown' = TRUE
    /\ pc' = "widgets"
    /\ UNCHANGED <<served, executions, run_simulation, re_run, requests, fault, graph_data, df,
                   engineVars, i, page, progress, chart, twinVars>>

\* st.title(...) and the two sidebar buttons
Widgets ==
    /\ pc = "widgets"
    /\ page' = page \o <<"title", "buttons">>
    /\ pc' = IF run_simulation THEN "pressed" ELSE "chart"
    /\ UNCHANGED <<served, executions, run_simulation, re_run, requests, fault, graph_data, df,
                   engineVars, figShown, i, progress, chart, twinVars>>

\* if run_simulation: progress bar, status text, simulation.execute() is entered
RunAgain ==
    /\ pc = "pressed"
    /\ page' = page \o <<"progress_bar", "status_text">>
    /\ EnterExecute(configs, "button")
    /\ pc' = "execute"
    /\ UNCHANGED <<served, executions, run_simulation, re_run, requests, fault, graph_data, df,
                   configs, result, figShown, i, progress, chart, twinVars>>

\* for i in range(len(result)): progress_bar.progress((i + 1) / len(result) * 100)
ProgressStep ==
    /\ pc = "progress"
    /\ i < Len(result)
    /\ progress' = Append(progress, Percent(i, Len(result)))
    /\ i' = i + 1
    /\ UNCHANGED <<served, scriptVars, engineVars, figShown, page, chart, twinVars>>

\* progress_bar.empty(); st.subheader("Simulation Results"); st.write(result)
ProgressDone ==
    /\ pc = "progress"
    /\ i >= Len(result)
    /\ page' = page \o <<"progress_empty", "results_header", "table">>
    /\ i' = 0
    /\ pc' = "chart"
    /\ UNCHANGED <<served, executions, run_simulation, re_run, requests, fault, graph_data, df,
                   engineVars, figShown, progress, chart, twinVars>>

\* st.subheader("Simulation Chart"); chart = st.line_chart()
Chart ==
    /\ pc = "chart"
    /\ page' = page \o <<"chart_header", "chart">>
    /\ i' = 0
    /\ pc' = IF run_simulation THEN "append" ELSE "rerun"
    /\ UNCHANGED <<served, executions, run_simulation, re_run, requests, fault, graph_data, df,
                   engineVars, figShown, progress, chart, twinVars>>

\* for i in range(len(result)): chart.add_rows(result.iloc[i, :])
ChartAppendFirst ==
    /\ pc = "append"
    /\ i < Len(result)
    /\ chart' = Append(chart, iloc(result, 0))
    /\ i' = i + 1
    /\ UNCHANGED <<served, scriptVars, engineVars, figShown, page, progress, twinVars>>

ChartAppend ==
    /\ pc = "append"
    /\ i < Len(result)
    /\ chart' = Append(chart, iloc(result, i))
    /\ i' = i + 1
    /\ UNCHANGED <<served, scriptVars, engineVars, figShown, page, progress, twinVars>>

ChartDone ==
    /\ pc = "append"
    /\ i >= Len(result)
    /\ pc' = "rerun"
    /\ UNCHANGED <<served, executions, run_simulation, re_run, requests, fault, graph_data, df,
                   engineVars, pageVars, twinVars>>

\* if re_run: st.experimental_rerun()
ExperimentalRerun ==
    /\ pc = "rerun"
    /\ re_run
    /\ executions < MaxExecutions
    /\ executions' = executions + 1
    /\ StartExecution(FALSE, FALSE)
    /\ UNCHANGED <<served, configs, twinVars>>

ScriptEnd ==
    /\ pc = "rerun"
    /\ ~re_run
    /\ pc' = "done"
    /\ UNCHANGED <<served, executions, run_simulation, re_run, requests, fault, graph_data, df,
                   engineVars, pageVars, twinVars>>

\* the user presses a rendered button, or loads the page again
PressRunSimulation ==
    /\ pc = "done"
    /\ executions < MaxExecutions
    /\ executions' = executions + 1
    /\ StartExecution(TRUE, FALSE)
    /\ UNCHANGED <<served, configs, twinVars>>

PressReRun ==
    /\ pc = "done"
    /\ executions < MaxExecutions
    /\ executions' = executions + 1
    /\ StartExecution(FALSE, TRUE)
    /\ UNCHANGED <<served, configs, twinVars>>

Reload ==
    /\ pc \in {"done", "crashed"}
    /\ executions < MaxExecutions
    /\ executions' = executions + 1
    /\ StartExecution(FALSE, FALSE)
    /\ UNCHANGED <<served, configs, twinVars>>

Next ==
    \/ Query
    \/ DataWrangle
    \/ Configure
    \/ PolicyStep
    \/ RunDone
    \/ Plot
    \/ Widgets
    \/ RunAgain
    \/ ProgressStep
    \/ ProgressDone
    \/ Chart
    \/ ChartAppend
    \/ ChartDone
    \/ ExperimentalRerun
    \/ ScriptEnd
    \/ PressRunSimulation
    \/ PressReRun
    \/ Reload

Spec == Init /\ [][Next]_vars

SpecLarge == InitLarge /\ [][Next]_vars

\* ------------------------------------------- two runs over the same table
InitTwin ==
    /\ served = {}
    /\ InitScript
    /\ twinDf \in {to_dict(Reshape(ms)) : ms \in SmallAnswers}
    /\ \E a \in InitialStates, b \in InitialStates :
        /\ twinA = <<Genesis(a, 0, 1)>>
        /\ twinB = <<Genesis(b, 0, 1)>>

\* the same element of T in both runs
TwinStep ==
    /\ Len(twinA) - 1 < config(twinDf).T
    /\ RowKey(twinA[Len(twinA)]) \in DOMAIN twinDf
    /\ twinA' = Append(twinA, partial_state_update_blocks(config(twinDf).M, twinA[Len(twinA)], Len(twinA)))
    /\ twinB' = Append(twinB, partial_state_update_blocks(config(twinDf).M, twinB[Len(twinB)], Len(twinB)))
    /\ UNCHANGED <<served, scriptVars, engineVars, pageVars, twinDf>>

NextTwin == TwinStep

SpecTwin == InitTwin /\ [][NextTwin]_vars

\* ------------------------------------------------------------ properties
\* the table of the configuration whose run is in sL
RunTable == configs[simulation].M.new_df

\* the k-th read of the run produced the record sL[k + 1]
Produced(k) == k \in DOMAIN reads /\ k + 1 \in DOMAIN sL /\ reads[k] \in DOMAIN RunTable

Shown(element) == \E k \in DOMAIN page : page[k] = element

Leq(a, b) == a.num * b.den <= b.num * a.den

\* C1: for every row p_rates reads, the utilization_rate of the record it
\* produces is totalBorrows / totalSupply * 100 when totalSupply is not zero,
\* and the number 0 when totalSupply is zero.
C1_UtilizationRate ==
    simulation >= 1 =>
        \A k \in DOMAIN reads : Produced(k) =>
            LET row == RunTable[reads[k]]
                u == sL[k + 1].utilization_rate
            IN  /\ u.type = "float"
                /\ u.den > 0
                /\ IF row.totalSupply.num = 0
                   THEN u.num = 0
                   ELSE u.num * row.totalSupply.num = row.totalBorrows.num * 100 * u.den

C1_Witness ==
    /\ simulation >= 1
    /\ \E k \in DOMAIN reads : Produced(k) /\ RunTable[reads[k]].totalSupply.num = 0
    /\ \E k \in DOMAIN reads :
        /\ Produced(k)
        /\ RunTable[reads[k]].totalSupply.num # 0
        /\ sL[k + 1].utilization_rate.num = 25

\* C2: after every step, lender_APY, borrower_rate and exchange_rate of the
\* produced record equal supplyRate, borrowRate and exchangeRate of the row
\* the step read.
C2_FieldsCopied ==
    simulation >= 1 =>
        \A k \in DOMAIN reads : Produced(k) =>
            /\ sL[k + 1].lender_APY = RunTable[reads[k]].supplyRate
            /\ sL[k + 1].borrower_rate = RunTable[reads[k]].borrowRate
            /\ sL[k + 1].exchange_rate = RunTable[reads[k]].exchangeRate

\* the time sequence of the run in sL is exhausted
RunComplete ==
    /\ simulation >= 1
    /\ fault = "none"
    /\ Len(sL) - 1 >= configs[simulation].T

\* C3: a run performs as many state updates as its table has rows, its steps
\* read the rows 0..N-1 once each, and a configuration has a single run.
C3_StepsEqualRows ==
    RunComplete =>
        LET N == Cardinality(DOMAIN RunTable)
        IN  /\ Len(sL) = N + 1
            /\ reads = [k \in 1..N |-> k - 1]
            /\ configs[simulation].N = 1
            /\ run = 1

C3_Witness ==
    /\ RunComplete
    /\ Len(reads) >= 2
    /\ pc = "execute"

\* C4 (as stated): the record with timestep k holds the data of row k.
C4_RecordHoldsRowOfItsTimestep ==
    simulation >= 1 =>
        \A k \in DOMAIN sL : sL[k].substep = 1 =>
            /\ sL[k].timestep \in DOMAIN RunTable
            /\ sL[k].lender_APY = RunTable[sL[k].timestep].supplyRate
            /\ sL[k].borrower_rate = RunTable[sL[k].timestep].borrowRate

\* C4 (amended): the record with timestep k >= 1 holds the data of row k - 1,
\* the row whose key is the timestep of the previous state; the record with
\* timestep 0 holds the initial state.
C4_RecordHoldsRowOfPreviousTimestep ==
    simulation >= 1 =>
        /\ \A k \in DOMAIN sL : sL[k].timestep = k - 1
        /\ \A k \in DOMAIN sL : k >= 2 =>
            /\ k - 2 \in DOMAIN RunTable
            /\ reads[k - 1] = k - 2
            /\ sL[k].lender_APY = RunTable[k - 2].supplyRate
            /\ sL[k].borrower_rate = RunTable[k - 2].borrowRate
        /\ sL # <<>> =>
            /\ sL[1].lender_APY = configs[simulation].initial_state.lender_APY
            /\ sL[1].borrower_rate = configs[simulation].initial_state.borrower_rate

C4_Witness ==
    /\ simulation >= 1
    /\ Len(sL) = 3
    /\ sL[2].lender_APY # sL[3].lender_APY

StateFields == {"lender_APY", "borrower_rate", "utilization_rate", "exchange_rate"}

\* C5: two runs over the same table agree on the four state values from the
\* first step on, whatever initial states they were started from.
C5_NoFeedback ==
    \A k \in DOMAIN twinA : k >= 2 =>
        \A f \in StateFields : twinA[k][f] = twinB[k][f]

C5_Witness ==
    /\ Len(twinA) >= 3
    /\ \A f \in StateFields : twinA[1][f] # twinB[1][f]

\* C6: once the query or the reshape has faulted the execution is over: no
\* simulation was executed, nothing is rendered, and no second request is sent.
C6_FaultAborts ==
    fault \in {"query", "reshape"} =>
        /\ pc = "crashed"
        /\ executes = 0
        /\ page = <<>>
        /\ ~figShown
        /\ requests = 1
        /\ result = <<>>

C6_Witness ==
    /\ fault = "reshape"
    /\ graph_data = <<>>
    /\ pc = "crashed"
    /\ Len(configs) >= 1

C8_OneConfiguration ==
    result # <<>> =>
        /\ Len(configs) = 1
        /\ Len(result) = Len(df) + 1
        /\ \A k \in DOMAIN result : result[k].timestep = k - 1

\* C9: every row key p_rates uses is a key of the table, 0..N-1.
C9_RowKeyValid ==
    /\ fault # "KeyError"
    /\ simulation >= 1 =>
        \A k \in DOMAIN reads :
            /\ reads[k] \in DOMAIN RunTable
            /\ reads[k] \in 0..(Cardinality(DOMAIN RunTable) - 1)

C9_Witness ==
    /\ simulation >= 1
    /\ Len(reads) >= 2
    /\ reads[1] = 0
    /\ reads[Len(reads)] = Cardinality(DOMAIN RunTable) - 1

\* the parts of C10 that do not bound the percentage from below
ProgressShape ==
    /\ \A k \in DOMAIN progress : Leq(progress[k], PyNum(100))
    /\ \A k \in DOMAIN progress : k >= 2 => Leq(progress[k - 1], progress[k])
    /\ progress # <<>> => run_simulation /\ Len(progress) <= Len(result)
    /\ progress # <<>> /\ pc # "progress" =>
        /\ Len(progress) = Len(result)
        /\ progress[Len(progress)] = PyNum(100)
    /\ \A k \in DOMAIN page : page[k] = "table" =>
        /\ Len(progress) = Len(result)
        /\ \E j \in 1..(k - 1) : page[j] = "progress_empty"

====
